---- MODULE Spec2Model ----
(***************************************************************************)
(* Payments subsystem of the Nuge API: PaymentService.create_payment_intent *)
(* (payments/service.py), the /payments routes (payments/router.py),        *)
(* WebhookService.consume_webhook (payments/webhook_service.py) and         *)
(* handle_payment_succeeded (payments/webhook_utils.py), all writing the    *)
(* "payments" table (payments/models.py) through one AsyncSession per       *)
(* request (db/config.py).                                                  *)
(*                                                                          *)
(* Every request runs in its own session and transaction.  A handler is     *)
(* split at the awaits at which another request can observe or change the   *)
(* committed table: flush / gateway call / commit for the initiator, and    *)
(* select / commit for the webhook handler.  The table holds committed rows *)
(* only; a session's pending object is local to its request.                *)
(*                                                                          *)
(* The second part models the accounts side: AuthService.register           *)
(* (auth/service.py), the /users routes (users/router.py) behind            *)
(* get_current_user (auth/dependency.py), and the path of a request through *)
(* the middleware stack and the exception handlers installed in main.py.    *)
(***************************************************************************)
EXTENDS Integers, FiniteSets, TLC

\* ------------------------------------------------------------------ bounds
NReq == 2
NHook == 2
NUser == 2
NRid == 2

Reqs == 1..NReq
Hooks == 1..NHook
\* user ids handed out by the auth provider, and uuid4 request ids
UserIds == 1..NUser
RequestIds == 1..NRid

\* ---------------------------------------------------------------- inputs
None == 0
\* PaymentCreate bodies / event payload objects: a well-formed charge and
\* one with a non-positive amount and an empty currency (schemas.py puts no
\* constraint on either field)
WellFormed == [amount |-> 500, currency |-> "usd"]
Charges == {WellFormed, [amount |-> 0, currency |-> ""]}
\* No handler branches on the amount or the currency, it only copies them.
\* The first request and the first delivery to arrive carry any charge,
\* the later ones the well-formed one.
ChargesOfRequest(p) == IF p = 1 THEN Charges ELSE {WellFormed}
ChargesOfDelivery(h) == IF h = 1 THEN Charges ELSE {WellFormed}
\* PaymentIntent statuses the gateway can report for a confirmed intent
GatewayStatuses == {"succeeded", "requires_action"}
EventTypes == {"payment_intent.succeeded", "payment_intent.payment_failed"}
\* Stripe-Signature header: absent, present but not verifying, verifying
Signatures == {"missing", "bad", "ok"}

VARIABLES
    payments,    \* committed rows of table "payments"
    intents,     \* ids of the PaymentIntents that exist at the gateway
    req,         \* per create-intent request: position and locals
    hook,        \* per webhook delivery: position and locals
    resp,        \* the HTTP response sent most recently
    authUsers,   \* ids of the users of the auth provider (auth.users)
    users,       \* rows of table "users"
    request      \* the request in the middleware stack, and its response

payVars == <<payments, intents, req, hook, resp>>
apiVars == <<authUsers, users, request>>
vars == <<payments, intents, req, hook, resp, authUsers, users, request>>

\* The primary-key sequence and the gateway hand out fresh ids.  Each
\* request flushes at most one row and creates at most one intent, and each
\* delivery inserts at most one row, so the fresh ids are named after the
\* request or delivery that obtains them.
RowIdOfRequest(p) == p
RowIdOfDelivery(h) == NReq + h
IntentIdOfRequest(p) == p

\* ------------------------------------------------------------ data model
Payment(id, intent, amount, currency, status) ==
    [id |-> id, stripe_payment_intent_id |-> intent, amount |-> amount,
     currency |-> currency, status |-> status]

NoPayment == Payment(None, None, 0, "", "")

\* variant: the initiator's row is created with the status of a settled
\* payment
PendingPaymentSettled(id, data) ==
    Payment(id, None, data.amount, data.currency, "succeeded")

\* Payment(amount=data.amount, currency=data.currency, status="pending"):
\* stripe_payment_intent_id is left unset
PendingPayment(id, data) ==
    Payment(id, None, data.amount, data.currency, "pending")

\* variant: the delivery's row is created without the intent id
EventPaymentWithoutIntent(id, intent, amount, currency) ==
    Payment(id, None, amount, currency, "succeeded")

\* Payment(stripe_payment_intent_id=payment_intent_id,
\* amount=payment_intent["amount"], currency=payment_intent["currency"],
\* status="succeeded")
EventPayment(id, intent, amount, currency) ==
    Payment(id, intent, amount, currency, "succeeded")

\* select(Payment).where(Payment.stripe_payment_intent_id == payment_intent_id)
SelectByIntent(store, intent) ==
    {r \in store : r.stripe_payment_intent_id = intent}

\* variant: a row is not inserted when a row for the same charge exists
InsertPaymentDeduplicated(store, row) ==
    IF \E r \in store : r.amount = row.amount /\ r.currency = row.currency
    THEN store
    ELSE store \cup {row}

\* variant: the insert overwrites the status of a row of the same intent
InsertPaymentUpsert(store, row) ==
    IF \E r \in store : /\ r.stripe_payment_intent_id # None
                         /\ r.stripe_payment_intent_id =
                               row.stripe_payment_intent_id
    THEN {IF r.stripe_payment_intent_id = row.stripe_payment_intent_id
          THEN [r EXCEPT !.status = row.status] ELSE r : r \in store}
    ELSE store \cup {row}

\* session.add(payment) followed by a successful commit: INSERT of one row.
\* The table has a primary key on id and no constraint on the intent id.
InsertPayment(store, row) == store \cup {row}

\* variant: the update also writes an amount and a currency to the row
MarkSucceededOverwritesCharge(store, id) ==
    {IF r.id = id
     THEN [r EXCEPT !.status = "succeeded", !.amount = 0, !.currency = ""]
     ELSE r : r \in store}

\* variant: the update also clears the intent id of the row
MarkSucceededClearsIntent(store, id) ==
    {IF r.id = id
     THEN [r EXCEPT !.status = "succeeded", !.stripe_payment_intent_id = None]
     ELSE r : r \in store}

\* payment.status = "succeeded" on a loaded row, then commit:
\* UPDATE payments SET status = 'succeeded' WHERE id = :id
MarkSucceeded(store, id) ==
    {IF r.id = id THEN [r EXCEPT !.status = "succeeded"] ELSE r : r \in store}

\* variant: the failure path commits the row as a pending record
RollbackLeavesPending(store, row) ==
    IF row.id = None THEN store
    ELSE store \cup {[row EXCEPT !.status = "pending",
                                 !.stripe_payment_intent_id = None]}

\* variant: the flushed row survives the failure
RollbackKeepsRow(store, row) == IF row.id = None THEN store ELSE store \cup {row}

\* self.db.rollback(): the flushed, uncommitted INSERT is discarded
Rollback(store, row) == store

\* variant: the catch-all clause precedes the SQLAlchemyError clause
MapExceptionCatchAllFirst(exc) ==
    IF exc = "StripeError" THEN "StripePaymentError"
    ELSE "UnexpectedError"

\* except StripeError / except SQLAlchemyError / except Exception
MapException(exc) ==
    IF exc = "StripeError" THEN "StripePaymentError"
    ELSE IF exc = "SQLAlchemyError" THEN "DatabaseOperationError"
    ELSE "UnexpectedError"

\* create_payment_intent_route: the HTTPException raised per error kind
RouteStatus(err) ==
    IF err = "StripePaymentError" THEN 400
    ELSE IF err = "DatabaseOperationError" THEN 500
    ELSE IF err = "UnexpectedError" THEN 500
    ELSE 200

\* variant: any signature header that is present is accepted
VerifySignaturePresent(sig) == sig # "missing"

\* stripe.Webhook.construct_event raises unless the signature verifies
VerifySignature(sig) == sig = "ok"

\* variant: every event type is handled as a success
DispatchesAny(type) == TRUE

\* match event["type"]: case "payment_intent.succeeded"
Dispatches(type) == type = "payment_intent.succeeded"

\* variant: only the StripeError clause answers 400, any other exception
\* escapes to the framework
WebhookStatusUncaught(exc) ==
    IF exc = "none" THEN 200
    ELSE IF exc = "StripeError" THEN 400
    ELSE 500

\* consume_webhook: except StripeError and except Exception both raise
\* HTTPException(status_code=400); a normal return is answered 200
WebhookStatus(exc) == IF exc = "none" THEN 200 ELSE 400

\* ------------------------------------------------------------------ Init
ReqInit == [pc |-> "start", payment |-> NoPayment, gateway |-> "none"]

HookInit ==
    [pc |-> "start", sig |-> "none", type |-> "none", intent |-> None,
     amount |-> 0, currency |-> "", found |-> None]

\* a response: the route it answers ("create" or "webhook"), the status
\* code, the exception that caused it, the error kind raised by the
\* service, and for a delivery the signature and event type it carried
NoResp ==
    [to |-> "none", http |-> 0, exc |-> "none", error |-> "none",
     sig |-> "none", type |-> "none", rolledback |-> FALSE]

\* requests and deliveries are numbered in their order of arrival
Arrived(f, i) == IF i = 1 THEN TRUE ELSE f[i - 1].pc # "start"

\* a request in the middleware stack: how far it has come, the route and
\* its inputs, the uuid4 of each middleware, request.state.request_id, the
\* exception the handler raised and whether it is still propagating, and
\* the response: status, kind of body, the envelope's error_code and
\* request_id, and the X-Request-ID header
NoHttp ==
    [stage |-> "idle", route |-> "none", caller |-> None, user_id |-> None,
     full_name |-> "", signup |-> "none", insert |-> "none",
     logging_id |-> None, tracking_id |-> None, request_id |-> None,
     exc |-> "none", pending |-> FALSE, status_code |-> 0,
     detail |-> "none", body |-> "none", error_code |-> "none",
     body_request_id |-> None, x_request_id |-> None]

Init ==
    /\ payments = {}
    /\ intents = {}
    /\ req = [p \in Reqs |-> ReqInit]
    /\ hook = [h \in Hooks |-> HookInit]
    /\ resp = NoResp
    /\ authUsers = {}
    /\ users = {}
    /\ request = NoHttp

\* ------------------------------------------- PaymentService (service.py)
\* variant: the error is raised without a rollback before it
RaiseWithoutRollback(p, exc) ==
    /\ payments' = payments
    /\ req' = [req EXCEPT ![p] = [ReqInit EXCEPT !.pc = "failed"]]
    /\ resp' = [NoResp EXCEPT !.to = "create", !.exc = exc,
                              !.error = MapException(exc),
                              !.http = RouteStatus(MapException(exc))]

\* the except clauses: rollback, then raise the mapped error, which the
\* route turns into an HTTPException.  The handler's locals end with it.
Raise(p, exc) ==
    /\ payments' = Rollback(payments, req[p].payment)
    /\ req' = [req EXCEPT ![p] = [ReqInit EXCEPT !.pc = "failed"]]
    /\ resp' = [NoResp EXCEPT !.to = "create", !.exc = exc,
                              !.error = MapException(exc),
                              !.http = RouteStatus(MapException(exc)),
                              !.rolledback = TRUE]

\* variant: the flush makes the pending row visible to other sessions
CreateFlushAutocommits(p) ==
    /\ req[p].pc = "start"
    /\ Arrived(req, p)
    /\ \E data \in ChargesOfRequest(p) :
         /\ req' = [req EXCEPT ![p] =
                      [@ EXCEPT !.pc = "flushed",
                                !.payment = PendingPayment(RowIdOfRequest(p),
                                                           data)]]
         /\ payments' = InsertPayment(payments,
                                      PendingPayment(RowIdOfRequest(p), data))
    /\ UNCHANGED <<intents, hook, resp>>
    /\ UNCHANGED apiVars

\* async with self.db.begin(); Payment(... status="pending"); add; flush
CreateFlush(p) ==
    /\ req[p].pc = "start"
    /\ Arrived(req, p)
    /\ \E data \in ChargesOfRequest(p) :
         req' = [req EXCEPT ![p] =
                   [@ EXCEPT !.pc = "flushed",
                             !.payment = PendingPayment(RowIdOfRequest(p),
                                                        data)]]
    /\ UNCHANGED <<payments, intents, hook, resp>>
    /\ UNCHANGED apiVars

\* variant: the gateway is called although the flush raised
CreateFlushFailsCallsGateway(p) ==
    /\ req[p].pc = "start"
    /\ Arrived(req, p)
    /\ Raise(p, "SQLAlchemyError")
    /\ intents' = intents \cup {IntentIdOfRequest(p)}
    /\ UNCHANGED hook
    /\ UNCHANGED apiVars

\* the flush raises (SQLAlchemyError): nothing was inserted
CreateFlushFails(p) ==
    /\ req[p].pc = "start"
    /\ Arrived(req, p)
    /\ Raise(p, "SQLAlchemyError")
    /\ UNCHANGED <<intents, hook>>
    /\ UNCHANGED apiVars

\* stripe.PaymentIntent.create(..., confirm=True) returns an intent;
\* payment.stripe_payment_intent_id = intent["id"];
\* payment.status = intent["status"]
CreateGateway(p) ==
    /\ req[p].pc = "flushed"
    /\ \E st \in GatewayStatuses :
         req' = [req EXCEPT ![p] =
                   [@ EXCEPT !.pc = "confirmed", !.gateway = st,
                             !.payment = [@ EXCEPT
                                 !.stripe_payment_intent_id =
                                     IntentIdOfRequest(p),
                                 !.status = st]]]
    /\ intents' = intents \cup {IntentIdOfRequest(p)}
    /\ UNCHANGED <<payments, hook, resp>>
    /\ UNCHANGED apiVars

\* stripe.PaymentIntent.create raises.  A StripeError covers a rejected
\* charge (no intent exists at the gateway) and a connection error or
\* timeout (the gateway may have created the intent all the same).
CreateGatewayFails(p) ==
    /\ req[p].pc = "flushed"
    /\ \E exc \in {"StripeError", "Exception"}, created \in BOOLEAN :
         /\ created => exc = "StripeError"
         /\ intents' = IF created THEN intents \cup {IntentIdOfRequest(p)}
                       ELSE intents
         /\ Raise(p, exc)
    /\ UNCHANGED hook
    /\ UNCHANGED apiVars

\* await self.db.commit(); return PaymentResponse(client_secret=...).
\* The handler's locals end with it.
CreateCommit(p) ==
    /\ req[p].pc = "confirmed"
    /\ payments' = InsertPayment(payments, req[p].payment)
    /\ req' = [req EXCEPT ![p] = [ReqInit EXCEPT !.pc = "done"]]
    /\ resp' = [NoResp EXCEPT !.to = "create",
                              !.http = RouteStatus("none")]
    /\ UNCHANGED <<intents, hook>>
    /\ UNCHANGED apiVars

\* variant: the client secret is returned although the commit raised
CreateCommitFailsReturnsSecret(p) ==
    /\ req[p].pc = "confirmed"
    /\ req' = [req EXCEPT ![p] = [ReqInit EXCEPT !.pc = "done"]]
    /\ resp' = [NoResp EXCEPT !.to = "create",
                              !.http = RouteStatus("none")]
    /\ UNCHANGED <<payments, intents, hook>>
    /\ UNCHANGED apiVars

\* the commit raises (SQLAlchemyError)
CreateCommitFails(p) ==
    /\ req[p].pc = "confirmed"
    /\ Raise(p, "SQLAlchemyError")
    /\ UNCHANGED <<intents, hook>>
    /\ UNCHANGED apiVars

\* ------------------------- stripe_webhook route and WebhookService
\* the delivery is answered; the handler's locals end with it
Respond(h, sig, type, exc, http) ==
    /\ hook' = [hook EXCEPT ![h] = [HookInit EXCEPT !.pc = "done"]]
    /\ resp' = [NoResp EXCEPT !.to = "webhook", !.sig = sig,
                              !.type = type, !.exc = exc, !.http = http]

\* request.headers["Stripe-Signature"] raises KeyError in the route,
\* outside consume_webhook's try: the framework answers 500
WebhookNoHeader(h) ==
    /\ hook[h].pc = "start"
    /\ Arrived(hook, h)
    /\ Respond(h, "missing", "none", "KeyError", 500)
    /\ UNCHANGED <<payments, intents, req>>
    /\ UNCHANGED apiVars

\* construct_event raises SignatureVerificationError (a StripeError)
WebhookBadSignature(h) ==
    /\ hook[h].pc = "start"
    /\ Arrived(hook, h)
    /\ \E sig \in Signatures \ {"missing"} :
         /\ ~VerifySignature(sig)
         /\ Respond(h, sig, "none", "StripeError",
                    WebhookStatus("StripeError"))
    /\ UNCHANGED <<payments, intents, req>>
    /\ UNCHANGED apiVars

\* case _: print("Unhandled event type")
WebhookUnhandled(h) ==
    /\ hook[h].pc = "start"
    /\ Arrived(hook, h)
    /\ \E sig \in Signatures \ {"missing"}, type \in EventTypes :
         /\ VerifySignature(sig)
         /\ ~Dispatches(type)
         /\ Respond(h, sig, type, "none", WebhookStatus("none"))
    /\ UNCHANGED <<payments, intents, req>>
    /\ UNCHANGED apiVars

\* the intents an event can be about: those the gateway has created
KnownIntents == intents

\* case "payment_intent.succeeded": handle_payment_succeeded up to
\* result.scalar_one_or_none()
WebhookSelect(h) ==
    /\ hook[h].pc = "start"
    /\ Arrived(hook, h)
    /\ \E sig \in Signatures \ {"missing"}, type \in EventTypes,
          intent \in KnownIntents, object \in ChargesOfDelivery(h) :
         /\ VerifySignature(sig)
         /\ Dispatches(type)
         /\ LET rows == SelectByIntent(payments, intent)
            IN  IF Cardinality(rows) > 1
                THEN \* MultipleResultsFound, caught by except Exception
                     Respond(h, sig, type, "MultipleResultsFound",
                             WebhookStatus("MultipleResultsFound"))
                ELSE \* payment_intent["amount"] and ["currency"] are read
                     \* in the else branch only
                     /\ hook' = [hook EXCEPT ![h] =
                           [pc |-> "selected", sig |-> sig, type |-> type,
                            intent |-> intent,
                            amount |-> IF rows = {} THEN object.amount
                                       ELSE 0,
                            currency |-> IF rows = {} THEN object.currency
                                         ELSE "",
                            found |-> IF rows = {} THEN None
                                      ELSE (CHOOSE r \in rows : TRUE).id]]
                     /\ resp' = resp
    /\ UNCHANGED <<payments, intents, req>>
    /\ UNCHANGED apiVars

\* if payment: payment.status = "succeeded" / else: session.add(Payment(...
\* status="succeeded")); await session.commit()
WebhookCommit(h) ==
    /\ hook[h].pc = "selected"
    /\ IF hook[h].found # None
       THEN payments' = MarkSucceeded(payments, hook[h].found)
       ELSE payments' = InsertPayment(payments,
                           EventPayment(RowIdOfDelivery(h), hook[h].intent,
                                        hook[h].amount, hook[h].currency))
    /\ Respond(h, hook[h].sig, hook[h].type, "none", WebhookStatus("none"))
    /\ UNCHANGED <<intents, req>>
    /\ UNCHANGED apiVars

\* session.commit() raises: caught by except Exception, answered 400; the
\* session is closed without a commit
WebhookCommitFails(h) ==
    /\ hook[h].pc = "selected"
    /\ Respond(h, hook[h].sig, hook[h].type, "SQLAlchemyError",
               WebhookStatus("SQLAlchemyError"))
    /\ UNCHANGED <<payments, intents, req>>
    /\ UNCHANGED apiVars

Next ==
    \/ \E p \in Reqs : CreateFlush(p)
    \/ \E p \in Reqs : CreateFlushFails(p)
    \/ \E p \in Reqs : CreateGateway(p)
    \/ \E p \in Reqs : CreateGatewayFails(p)
    \/ \E p \in Reqs : CreateCommit(p)
    \/ \E p \in Reqs : CreateCommitFails(p)
    \/ \E h \in Hooks : WebhookNoHeader(h)
    \/ \E h \in Hooks : WebhookBadSignature(h)
    \/ \E h \in Hooks : WebhookUnhandled(h)
    \/ \E h \in Hooks : WebhookSelect(h)
    \/ \E h \in Hooks : WebhookCommit(h)
    \/ \E h \in Hooks : WebhookCommitFails(h)

Spec == Init /\ [][Next]_vars

\* =========================================================================
\* Accounts and the request pipeline: the middleware stack of main.py around
\* the /auth and /users routes.  One request at a time passes the stack:
\* logging_middleware (added last, so outermost), RequestTrackingMiddleware,
\* the route handler, the exception handlers of core/error_handlers.py, and
\* back out through the two middlewares.
\* =========================================================================
Routes == {"register", "get_user", "update_user", "delete_user"}
\* full_name values of the UserCreate and UserUpdate bodies
Names == {"ann", "bob"}

\* a row of table "users"
UserRow(id, full_name) == [id |-> id, full_name |-> full_name]

\* the callers a request can come from: a registered or unregistered
\* user's token, or no valid token
Callers == UserIds \cup {None}

\* error_code_map of http_exception_handler
ErrorCode(status_code) ==
    IF status_code = 400 THEN "BAD_REQUEST"
    ELSE IF status_code = 401 THEN "UNAUTHORIZED"
    ELSE IF status_code = 403 THEN "FORBIDDEN"
    ELSE IF status_code = 404 THEN "NOT_FOUND"
    ELSE IF status_code = 500 THEN "INTERNAL_SERVER_ERROR"
    ELSE "HTTP_ERROR"

\* get_current_user: verify_token raises HTTPException(401) for an invalid
\* token and HTTPException(404) when auth.users has no such user; otherwise
\* it returns the decoded JWT payload, a dict with the user id under "sub"
GetCurrentUser(caller, auth) ==
    IF caller = None THEN [error |-> 401, type |-> "none", sub |-> None]
    ELSE IF caller \notin auth
         THEN [error |-> 404, type |-> "none", sub |-> None]
    ELSE [error |-> 0, type |-> "dict", sub |-> caller]

\* obj.name: a dict has keys, not attributes
HasAttr(obj, name) == obj.type # "dict" /\ name \in DOMAIN obj

\* the handler returns: FastAPI serialises the returned model
Returns(h, status_code) ==
    [h EXCEPT !.stage = "routed", !.status_code = status_code,
              !.body = "model"]

\* the handler raises
Raises(h, exc, status_code, detail) ==
    [h EXCEPT !.stage = "routed", !.exc = exc, !.pending = TRUE,
              !.status_code = status_code, !.detail = detail]

\* register's except Exception clause: whatever was raised inside the try,
\* the HTTPExceptions raised there included, becomes HTTPException(400)
RegisterExcept(h, raised) ==
    Raises(h, "HTTPException", 400, "Registration failed")

\* logging_middleware up to call_next: request_id = str(uuid.uuid4());
\* request.state.request_id = request_id
LoggingMiddlewareRequest ==
    /\ request.stage \in {"idle", "sent"}
    /\ \E route \in Routes, caller \in Callers, user_id \in UserIds,
          full_name \in Names, request_id \in RequestIds :
         /\ route = "register" => caller = None
         /\ route \in {"get_user", "delete_user"} => full_name = "ann"
         /\ request' = [NoHttp EXCEPT !.stage = "logging", !.route = route,
                                   !.caller = caller, !.user_id = user_id,
                                   !.full_name = full_name,
                                   !.logging_id = request_id,
                                   !.request_id = request_id]
    /\ UNCHANGED <<authUsers, users>>
    /\ UNCHANGED payVars

\* RequestTrackingMiddleware.dispatch up to call_next: a second uuid4,
\* written to the same request.state.request_id
RequestTrackingRequest ==
    /\ request.stage = "logging"
    /\ \E request_id \in RequestIds \ {request.logging_id} :
         request' = [request EXCEPT !.stage = "tracking",
                              !.tracking_id = request_id,
                              !.request_id = request_id]
    /\ UNCHANGED <<authUsers, users>>
    /\ UNCHANGED payVars

\* AuthService.register: supabase.auth.sign_up, then the insert into table
\* "users", both inside one try / except Exception
Register ==
    /\ request.stage = "tracking"
    /\ request.route = "register"
    /\ \E signup \in {"raises", "no_user", "user"},
          insert \in {"none", "raises", "no_data", "data"} :
         /\ (signup = "user") <=> (insert # "none")
         /\ signup = "user" => request.user_id \notin authUsers
         /\ authUsers' = IF signup = "user"
                         THEN authUsers \cup {request.user_id}
                         ELSE authUsers
         /\ users' = IF insert = "data"
                     THEN users \cup {UserRow(request.user_id, request.full_name)}
                     ELSE users
         /\ LET h == [request EXCEPT !.signup = signup, !.insert = insert]
            IN  request' =
                  IF signup = "raises"
                  THEN RegisterExcept(h, "AuthApiError")
                  ELSE IF signup = "no_user"
                  THEN \* raise HTTPException(400, "Failed to register user")
                       RegisterExcept(h, "HTTPException")
                  ELSE IF insert = "raises"
                  THEN RegisterExcept(h, "APIError")
                  ELSE IF insert = "no_data"
                  THEN \* raise HTTPException(500, "User created but ...")
                       RegisterExcept(h, "HTTPException")
                  ELSE Returns(h, 201)
    /\ UNCHANGED payVars

\* users/router.py get_user: the supabase query may raise; the route has
\* no try around it
GetUser ==
    /\ request.stage = "tracking"
    /\ request.route = "get_user"
    /\ LET current_user == GetCurrentUser(request.caller, authUsers)
       IN  IF current_user.error # 0
           THEN request' = Raises(request, "HTTPException", current_user.error,
                               "get_current_user")
           ELSE \E query \in {"raises", "rows"} :
                  request' =
                    IF query = "raises"
                    THEN Raises(request, "APIError", 0, "none")
                    ELSE IF \E r \in users : r.id = request.user_id
                    THEN Returns(request, 200)
                    ELSE Raises(request, "HTTPException", 404,
                                "User not found")
    /\ UNCHANGED <<authUsers, users>>
    /\ UNCHANGED payVars

\* users/router.py update_user: if current_user.id != user_id: raise
\* HTTPException(403); UserService.update_user; 404 if no row
UpdateUser ==
    /\ request.stage = "tracking"
    /\ request.route = "update_user"
    /\ LET current_user == GetCurrentUser(request.caller, authUsers)
       IN  IF current_user.error # 0
           THEN /\ request' = Raises(request, "HTTPException",
                                  current_user.error, "get_current_user")
                /\ users' = users
           ELSE IF ~HasAttr(current_user, "id")
           THEN /\ request' = Raises(request, "AttributeError", 0, "none")
                /\ users' = users
           ELSE IF current_user.id # request.user_id
           THEN /\ request' = Raises(request, "HTTPException", 403,
                                  "You can only update your own profile")
                /\ users' = users
           ELSE IF \E r \in users : r.id = request.user_id
           THEN /\ request' = Returns(request, 200)
                /\ users' = {IF r.id = request.user_id
                             THEN UserRow(r.id, request.full_name)
                             ELSE r : r \in users}
           ELSE /\ request' = Raises(request, "HTTPException", 404,
                                  "User not found")
                /\ users' = users
    /\ UNCHANGED authUsers
    /\ UNCHANGED payVars

\* users/router.py delete_user: if current_user.id != user_id: raise
\* HTTPException(403); UserService.delete_user; 404 if no row
DeleteUser ==
    /\ request.stage = "tracking"
    /\ request.route = "delete_user"
    /\ LET current_user == GetCurrentUser(request.caller, authUsers)
       IN  IF current_user.error # 0
           THEN /\ request' = Raises(request, "HTTPException",
                                  current_user.error, "get_current_user")
                /\ users' = users
           ELSE IF ~HasAttr(current_user, "id")
           THEN /\ request' = Raises(request, "AttributeError", 0, "none")
                /\ users' = users
           ELSE IF current_user.id # request.user_id
           THEN /\ request' = Raises(request, "HTTPException", 403,
                                  "You can only delete your own account")
                /\ users' = users
           ELSE IF \E r \in users : r.id = request.user_id
           THEN /\ request' = Returns(request, 204)
                /\ users' = {r \in users : r.id # request.user_id}
           ELSE /\ request' = Raises(request, "HTTPException", 404,
                                  "User not found")
                /\ users' = users
    /\ UNCHANGED authUsers
    /\ UNCHANGED payVars

\* http_exception_handler: the envelope with the mapped error code, the
\* exception's status and request.state.request_id
HttpExceptionHandler(h) ==
    [h EXCEPT !.pending = FALSE, !.body = "envelope",
              !.error_code = ErrorCode(h.status_code),
              !.body_request_id = h.request_id]

\* generic_exception_handler: the envelope with INTERNAL_SERVER_ERROR, 500
\* and request.state.request_id
GenericExceptionHandler(h) ==
    [h EXCEPT !.pending = FALSE, !.body = "envelope",
              !.status_code = 500,
              !.error_code = "INTERNAL_SERVER_ERROR",
              !.body_request_id = h.request_id]

\* the handlers setup_error_handlers registers for exception classes other
\* than Exception run in the innermost layer, next to the router; an
\* exception without such a handler propagates outwards
ExceptionMiddleware ==
    /\ request.stage = "routed"
    /\ request' = [(IF request.pending /\ request.exc = "HTTPException"
                 THEN HttpExceptionHandler(request)
                 ELSE request) EXCEPT !.stage = "handled"]
    /\ UNCHANGED <<authUsers, users>>
    /\ UNCHANGED payVars

\* RequestTrackingMiddleware.dispatch after call_next:
\* response.headers["X-Request-ID"] = request_id; except Exception: raise exc
RequestTrackingResponse ==
    /\ request.stage = "handled"
    /\ request' = [(IF request.pending THEN request
                 ELSE [request EXCEPT !.x_request_id = request.tracking_id])
                EXCEPT !.stage = "tracked"]
    /\ UNCHANGED <<authUsers, users>>
    /\ UNCHANGED payVars

\* logging_middleware after call_next:
\* response.headers["X-Request-ID"] = request_id; except Exception: return
\* JSONResponse(500, {"error": "Internal server error", "request_id": ...})
LoggingMiddlewareResponse ==
    /\ request.stage = "tracked"
    /\ request' = [(IF request.pending
                 THEN [request EXCEPT !.pending = FALSE, !.status_code = 500,
                                   !.body = "error",
                                   !.body_request_id = request.logging_id,
                                   !.x_request_id = request.logging_id]
                 ELSE [request EXCEPT !.x_request_id = request.logging_id])
                EXCEPT !.stage = "logged"]
    /\ UNCHANGED <<authUsers, users>>
    /\ UNCHANGED payVars

\* the handler registered for Exception runs in the outermost layer, around
\* every middleware: it sees only what they let through
ServerErrorMiddleware ==
    /\ request.stage = "logged"
    /\ request' = [(IF request.pending THEN GenericExceptionHandler(request)
                 ELSE request) EXCEPT !.stage = "sent"]
    /\ UNCHANGED <<authUsers, users>>
    /\ UNCHANGED payVars

NextApi ==
    \/ LoggingMiddlewareRequest
    \/ RequestTrackingRequest
    \/ Register
    \/ GetUser
    \/ UpdateUser
    \/ DeleteUser
    \/ ExceptionMiddleware
    \/ RequestTrackingResponse
    \/ LoggingMiddlewareResponse
    \/ ServerErrorMiddleware

SpecApi == Init /\ [][NextApi]_vars

\* ------------------------------------------------------------- properties
IntentsOf(store) == {r.stripe_payment_intent_id : r \in store} \ {None}

\* this step answers delivery h: resp' is its response
Answers(h) == hook[h].pc # "done" /\ hook'[h].pc = "done"

\* C1: at most one committed row exists for each non-null external intent
\* id, in every reachable state.
C1_UniqueIntent ==
    \A i \in IntentsOf(payments) :
        Cardinality(SelectByIntent(payments, i)) <= 1

\* C2: two deliveries of the same payment_intent.succeeded event, the select
\* of each running before the commit of the other, do not leave two rows for
\* the intent: when delivery h, which found no row, commits after delivery g
\* has inserted its row for the same intent, at most one row exists for it.
C2_OverlappingDeliveries ==
    [][\A g, h \in Hooks :
          (/\ g # h
           /\ hook[h].pc = "selected"
           /\ hook[h].found = None
           /\ \E r \in payments :
                 /\ r.id = RowIdOfDelivery(g)
                 /\ r.stripe_payment_intent_id = hook[h].intent
           /\ Answers(h)
           /\ resp'.http = 200)
          => Cardinality(SelectByIntent(payments', hook[h].intent)) <= 1]_vars

\* C3: once the initiator's commit and a successful delivery for the same
\* intent have both completed, in either order (here: the delivery inserted
\* its row because it did not see the initiator's), there is a single row
\* for the intent: the initiator's, with status succeeded.
C3_OrderIndependent ==
    \A p \in Reqs, h \in Hooks :
        (/\ req[p].pc = "done"
         /\ hook[h].pc = "done"
         /\ \E r \in payments :
               /\ r.id = RowIdOfDelivery(h)
               /\ r.stripe_payment_intent_id = IntentIdOfRequest(p))
        => \A r \in SelectByIntent(payments, IntentIdOfRequest(p)) :
               r.id = RowIdOfRequest(p) /\ r.status = "succeeded"

\* C4: a delivery that arrives after an earlier delivery of the same event
\* has committed (its select returns the row which that delivery inserted)
\* is answered with exactly one row in the table for the intent, with status
\* succeeded.
C4_Redelivered ==
    [][\A g, h \in Hooks :
          (/\ hook[h].pc = "selected"
           /\ hook[h].found = RowIdOfDelivery(g)
           /\ Answers(h)
           /\ resp'.http = 200)
          => LET rows == SelectByIntent(payments', hook[h].intent)
             IN  /\ Cardinality(rows) = 1
                 /\ \A r \in rows : r.status = "succeeded"]_vars

\* C5: the steps of an invocation whose gateway call raises a StripeError
\* leave the committed rows as they were, and the row it flushed is not
\* among them.
C5_GatewayFailureRollsBack ==
    [][\A p \in Reqs :
          (/\ req[p].pc = "flushed"
           /\ req'[p].pc = "failed"
           /\ resp'.exc = "StripeError")
          => /\ payments' = payments
             /\ \A r \in payments' : r.id # req[p].payment.id]_vars

C5_Witness ==
    /\ resp.to = "create"
    /\ resp.exc = "StripeError"
    /\ resp.rolledback
    /\ payments # {}

\* C6: when an invocation whose gateway call succeeded returns, exactly one
\* row exists for its intent, with the gateway-assigned id and the status
\* the gateway reported.
C6_OneRowPerSuccess ==
    [][\A p \in Reqs :
          (req[p].pc = "confirmed" /\ req'[p].pc = "done")
          => LET rows == SelectByIntent(payments',
                            req[p].payment.stripe_payment_intent_id)
             IN  /\ Cardinality(rows) = 1
                 /\ \A r \in rows : r.status = req[p].gateway]_vars

\* C7: a delivery whose signature does not verify is answered 400, changes
\* no row and never reaches handle_payment_succeeded.
C7_BadSignature ==
    [][\A h \in Hooks :
          (/\ hook[h].pc = "start"
           /\ hook'[h].pc # "start"
           /\ \/ hook'[h].sig = "bad"
              \/ Answers(h) /\ resp'.sig = "bad")
          => /\ payments' = payments
             /\ hook'[h].pc = "done"
             /\ resp'.http = 400]_vars

C7_Witness ==
    /\ resp.to = "webhook"
    /\ resp.sig = "bad"
    /\ resp.http = 400
    /\ payments # {}

\* C8: a row whose status is succeeded keeps that status in every later
\* state.
C8_SucceededIsFinal ==
    [][\A r \in payments :
          r.status = "succeeded"
          => \E s \in payments' : s.id = r.id /\ s.status = "succeeded"]_vars

\* the initiator's commit has just landed, with a status other than
\* succeeded, after a delivery had created a row for the same intent
C8_Witness ==
    /\ resp.to = "create"
    /\ resp.http = 200
    /\ \E p \in Reqs, r, t \in payments :
          /\ req[p].pc = "done"
          /\ r.id = RowIdOfRequest(p)
          /\ r.status # "succeeded"
          /\ t.id # r.id
          /\ t.stripe_payment_intent_id = r.stripe_payment_intent_id
          /\ t.status = "succeeded"

\* C9: a correctly signed event of any type other than
\* payment_intent.succeeded is answered 200 and changes no row.
C9_UnhandledIsNoOp ==
    [][\A h \in Hooks :
          (/\ hook[h].pc = "start"
           /\ hook'[h].pc # "start"
           /\ \/ /\ hook'[h].sig = "ok"
                 /\ hook'[h].type # "payment_intent.succeeded"
              \/ /\ Answers(h)
                 /\ resp'.sig = "ok"
                 /\ resp'.type # "payment_intent.succeeded")
          => /\ payments' = payments
             /\ hook'[h].pc = "done"
             /\ resp'.http = 200]_vars

C9_Witness ==
    /\ resp.to = "webhook"
    /\ resp.sig = "ok"
    /\ resp.type = "payment_intent.payment_failed"
    /\ resp.http = 200
    /\ payments # {}

\* C10: a failed invocation surfaces one error kind, chosen by the cause:
\* StripeError gives StripePaymentError and 400, SQLAlchemyError gives
\* DatabaseOperationError and 500, any other exception gives UnexpectedError
\* and 500.
C10_ErrorKinds ==
    (resp.to = "create" /\ resp.exc # "none")
    => /\ resp.exc = "StripeError"
            => resp.error = "StripePaymentError" /\ resp.http = 400
       /\ resp.exc = "SQLAlchemyError"
            => resp.error = "DatabaseOperationError" /\ resp.http = 500
       /\ resp.exc \notin {"StripeError", "SQLAlchemyError"}
            => resp.error = "UnexpectedError" /\ resp.http = 500

C10_Witness ==
    /\ resp.to = "create"
    /\ resp.exc = "Exception"
    /\ \E p, q \in Reqs : req[p].pc = "failed" /\ req[q].pc = "done"

\* C11: every exception raised inside consume_webhook (the delivery carried
\* a signature header, so the route entered it), a failed commit inside
\* handle_payment_succeeded included, is answered with HTTP 400.
C11_WebhookErrorsAre400 ==
    (resp.to = "webhook" /\ resp.sig # "missing" /\ resp.exc # "none")
    => resp.http = 400

\* a delivery was answered after its commit raised, with rows in the table
C11_Witness ==
    /\ resp.to = "webhook"
    /\ resp.sig = "ok"
    /\ resp.exc = "SQLAlchemyError"
    /\ resp.http = 400
    /\ payments # {}

\* a row for the intent exists with status succeeded
Reconciled(store, intent) ==
    \E r \in SelectByIntent(store, intent) : r.status = "succeeded"

\* C12: a correctly signed payment_intent.succeeded delivery that arrives
\* when the intents known to the gateway (the one it is about among them)
\* are all reconciled completes without error.
C12_ReconciledRedelivery ==
    [][\A h \in Hooks :
          (/\ hook[h].pc = "start"
           /\ Answers(h)
           /\ resp'.sig = "ok"
           /\ resp'.type = "payment_intent.succeeded"
           /\ \A i \in KnownIntents : Reconciled(payments, i))
          => resp'.exc = "none"]_vars

\* C13: a non-null external intent id is never changed: every step keeps
\* the intent id of each committed row that has one, and the intent id an
\* invocation has set on its pending row is the one it commits.
C13_IntentIdImmutable ==
    [][/\ \A r \in payments :
             (r \notin payments' /\ r.stripe_payment_intent_id # None)
             => \E t \in payments' :
                   /\ t.id = r.id
                   /\ t.stripe_payment_intent_id = r.stripe_payment_intent_id
       /\ \A p \in Reqs :
             (/\ req'[p] # req[p]
              /\ req[p].payment.stripe_payment_intent_id # None)
             => IF req'[p].pc = "done"
                THEN \E t \in payments' :
                        /\ t.id = req[p].payment.id
                        /\ t.stripe_payment_intent_id =
                              req[p].payment.stripe_payment_intent_id
                ELSE \/ req'[p].pc = "failed"
                     \/ req'[p].payment.stripe_payment_intent_id =
                           req[p].payment.stripe_payment_intent_id]_vars

\* a delivery has just updated a row committed by an invocation: it was
\* answered 200 and no row inserted by a delivery exists
C13_Witness ==
    /\ resp.to = "webhook"
    /\ resp.type = "payment_intent.succeeded"
    /\ resp.http = 200
    /\ payments # {}
    /\ \A r \in payments :
          /\ r.id \in {RowIdOfRequest(p) : p \in Reqs}
          /\ r.stripe_payment_intent_id # None

\* C14: every step keeps the amount and the currency of every committed
\* row, and a delivery that found a row and is answered 200 changes the
\* status of that row only: its other fields, every other row and the
\* number of rows stay as they were, whatever charge the event carried.
C14_UpdateChangesStatusOnly ==
    [][payments' # payments
       => /\ \A r \in payments :
                r \notin payments'
                => \E t \in payments' :
                      /\ t.id = r.id
                      /\ t.amount = r.amount
                      /\ t.currency = r.currency
          /\ \A h \in Hooks :
                (/\ hook[h].pc = "selected"
                 /\ hook[h].found # None
                 /\ Answers(h)
                 /\ resp'.http = 200)
                => /\ \A t \in payments' : \E r \in payments : r.id = t.id
                   /\ \A r \in payments :
                         IF r.id = hook[h].found
                         THEN [r EXCEPT !.status = "succeeded"] \in payments'
                         ELSE r \in payments']_vars

\* a delivery has just updated the row of an invocation for a well-formed
\* charge, next to a second row
C14_Witness ==
    /\ resp.to = "webhook"
    /\ resp.type = "payment_intent.succeeded"
    /\ resp.http = 200
    /\ Cardinality(payments) = 2
    /\ \A r \in payments : r.id \in {RowIdOfRequest(p) : p \in Reqs}
    /\ \E r \in payments :
          /\ r.amount = WellFormed.amount
          /\ r.currency = WellFormed.currency
          /\ r.status = "succeeded"

\* C15: in every reachable state the status of every committed row is one
\* of pending, succeeded, failed, canceled.
C15_StatusEnum ==
    \A r \in payments :
        r.status \in {"pending", "succeeded", "failed", "canceled"}

\* a row of payments' that this step created: no committed row and no
\* invocation's pending row had its id
CreatedByStep(t) ==
    /\ t \in payments'
    /\ t \notin payments
    /\ \A r \in payments : r.id # t.id
    /\ \A p \in Reqs : req[p].payment.id # t.id

\* C16 as stated: every record, whichever operation creates it, is created
\* with status pending and no external intent id.
C16_CreatedPending ==
    [][/\ \A p \in Reqs :
             (req[p].pc = "start" /\ req'[p].pc = "flushed")
             => /\ req'[p].payment.status = "pending"
                /\ req'[p].payment.stripe_payment_intent_id = None
       /\ \A t \in payments' :
             CreatedByStep(t)
             => t.status = "pending" /\ t.stripe_payment_intent_id = None]_vars

\* C16 amended: a record created by create_payment_intent is created with
\* status pending and no external intent id; a record created by
\* handle_payment_succeeded is created with status succeeded and the intent
\* id of the event.
C16_CreatedByOperation ==
    [][/\ \A p \in Reqs :
             (req[p].pc = "start" /\ req'[p].pc = "flushed")
             => /\ req'[p].payment.status = "pending"
                /\ req'[p].payment.stripe_payment_intent_id = None
       /\ \A t \in payments' :
             CreatedByStep(t)
             => \E h \in Hooks :
                   /\ Answers(h)
                   /\ t.id = RowIdOfDelivery(h)
                   /\ t.status = "succeeded"
                   /\ t.stripe_payment_intent_id = hook[h].intent
                   /\ hook[h].intent # None]_vars

\* a delivery has created a row while an invocation holds a flushed row
C16_Witness ==
    /\ resp.to = "webhook"
    /\ resp.http = 200
    /\ \E r \in payments, h \in Hooks : r.id = RowIdOfDelivery(h)
    /\ \E p \in Reqs : req[p].pc = "flushed"

\* C17: a request with amount <= 0 or an empty currency never inserts a row
\* and never reaches the gateway call (no invocation is past its flush with
\* such a charge), and every committed row has a positive amount.
C17_InputConstraints ==
    /\ \A p \in Reqs :
          req[p].pc \in {"flushed", "confirmed"}
          => req[p].payment.amount > 0 /\ req[p].payment.currency # ""
    /\ \A r \in payments : r.amount > 0

\* the gateway call of invocation p raises in this step although the
\* gateway has created the intent: a timeout or a lost connection
TimesOut(p) ==
    /\ req[p].pc = "flushed"
    /\ req'[p].pc = "failed"
    /\ IntentIdOfRequest(p) \in intents'

\* C18 as stated: after an invocation whose gateway call times out, the
\* invocation is reported as a failure and its row remains in the table
\* with status pending.
C18_TimeoutLeavesPending ==
    [][\A p \in Reqs :
          TimesOut(p)
          => /\ resp'.http >= 400
             /\ \E r \in payments' :
                   r.id = req[p].payment.id /\ r.status = "pending"]_vars

\* C18 amended: after an invocation whose gateway call times out, the
\* invocation is reported as a failure (StripePaymentError, HTTP 400) and
\* its transaction is rolled back: the committed rows are unchanged and no
\* row of that attempt is among them.
C18_TimeoutRollsBack ==
    [][\A p \in Reqs :
          TimesOut(p)
          => /\ resp'.to = "create"
             /\ resp'.error = "StripePaymentError"
             /\ resp'.http = 400
             /\ resp'.rolledback
             /\ payments' = payments
             /\ \A r \in payments' : r.id # req[p].payment.id]_vars

\* the first invocation's gateway call has timed out with the intent
\* created, and no other invocation has started
C18_Witness ==
    /\ resp.to = "create"
    /\ resp.exc = "StripeError"
    /\ req[1].pc = "failed"
    /\ IntentIdOfRequest(1) \in intents
    /\ \A q \in Reqs \ {1} : req[q].pc = "start"

\* C19: a correctly signed payment_intent.succeeded delivery for an intent
\* the gateway created and for which the table holds no row (the
\* initiator's row was rolled back or is not yet committed) takes the
\* insert branch with the charge of the event, and when it is answered 200
\* it has added one row with that intent id, that amount and currency and
\* status succeeded, leaving the other rows as they were.
C19_WebhookInsertsMissing ==
    [][\A h \in Hooks :
          /\ (/\ hook[h].pc = "start"
               /\ hook'[h].pc = "selected"
               /\ SelectByIntent(payments, hook'[h].intent) = {})
              => /\ hook'[h].found = None
                 /\ hook'[h].intent \in KnownIntents
                 /\ \E object \in ChargesOfDelivery(h) :
                       /\ hook'[h].amount = object.amount
                       /\ hook'[h].currency = object.currency
          /\ (/\ hook[h].pc = "selected"
               /\ hook[h].found = None
               /\ Answers(h)
               /\ resp'.http = 200)
              => LET row == [id |-> RowIdOfDelivery(h),
                             stripe_payment_intent_id |-> hook[h].intent,
                             amount |-> hook[h].amount,
                             currency |-> hook[h].currency,
                             status |-> "succeeded"]
                 IN  /\ row \notin payments
                     /\ payments' = payments \cup {row}]_vars

\* a delivery has inserted the row of an intent whose invocation failed
\* after the gateway had created the intent
C19_Witness ==
    /\ resp.to = "webhook"
    /\ resp.http = 200
    /\ \E p \in Reqs, h \in Hooks, r \in payments :
          /\ req[p].pc = "failed"
          /\ IntentIdOfRequest(p) \in intents
          /\ r.id = RowIdOfDelivery(h)
          /\ r.stripe_payment_intent_id = IntentIdOfRequest(p)
          /\ r.status = "succeeded"
          /\ SelectByIntent(payments, IntentIdOfRequest(p)) = {r}

\* the rows committed by the invocations that have returned successfully
RowsOfDone(rq, store) ==
    {r \in store :
        \E p \in Reqs : rq[p].pc = "done" /\ r.id = RowIdOfRequest(p)}

\* C20: an invocation calls the gateway at most once (only the step that
\* leaves the flushed position calls it, it creates at most one intent, and
\* no invocation returns to an earlier position), and invocations are not
\* de-duplicated: an invocation that returns successfully, identical inputs
\* included, has left a row of its own, whose intent id is one the gateway
\* created and differs from that of every other successful invocation's
\* row.
C20_OneCallNoDedup ==
    [][/\ intents' # intents
          => /\ \A i, j \in intents' \ intents : i = j
             /\ \A i \in intents' \ intents :
                   \E p \in Reqs : /\ i = IntentIdOfRequest(p)
                                    /\ req[p].pc = "flushed"
                                    /\ req'[p].pc # "flushed"
       /\ req' # req
          => \A p \in Reqs :
                /\ req[p].pc # "start" => req'[p].pc # "start"
                /\ req[p].pc \notin {"start", "flushed"}
                      => req'[p].pc # "flushed"
                /\ (req[p].pc # "done" /\ req'[p].pc = "done")
                   => \E r \in RowsOfDone(req', payments') :
                         /\ r.id = RowIdOfRequest(p)
                         /\ r.stripe_payment_intent_id \in intents'
                         /\ \A t \in RowsOfDone(req', payments') :
                               t.stripe_payment_intent_id =
                                   r.stripe_payment_intent_id
                               => t.id = r.id
      ]_vars

\* two invocations with the same input have both succeeded
C20_Witness ==
    /\ \A p \in {1, 2} : req[p].pc = "done"
    /\ \E r, t \in payments :
          /\ r.id = RowIdOfRequest(1)
          /\ t.id = RowIdOfRequest(2)
          /\ r.amount = t.amount
          /\ r.currency = t.currency
          /\ r.stripe_payment_intent_id # t.stripe_payment_intent_id

\* C21: within one invocation the steps occur in the order insert and
\* flush, gateway call, set intent id and status, commit: an invocation
\* only moves start -> flushed -> confirmed -> done or fails on the way;
\* the flush leaves a pending row without intent id and touches neither
\* gateway nor store; the gateway step sets the intent id and the status
\* the gateway returned and commits nothing; only the commit step adds the
\* row.  A failing insert or flush calls no gateway, and a failing gateway
\* call commits nothing.
C21_StepOrder ==
    [][req' # req
       => \A p \in Reqs :
             req'[p] # req[p]
             => /\ <<req[p].pc, req'[p].pc>> \in
                      {<<"start", "flushed">>, <<"start", "failed">>,
                       <<"flushed", "confirmed">>, <<"flushed", "failed">>,
                       <<"confirmed", "done">>, <<"confirmed", "failed">>}
                /\ req'[p].pc = "flushed"
                   => /\ req'[p].payment.id = RowIdOfRequest(p)
                      /\ req'[p].payment.status = "pending"
                      /\ req'[p].payment.stripe_payment_intent_id = None
                      /\ intents' = intents
                      /\ payments' = payments
                /\ req'[p].pc = "confirmed"
                   => /\ IntentIdOfRequest(p) \in intents'
                      /\ req'[p].payment.stripe_payment_intent_id =
                            IntentIdOfRequest(p)
                      /\ req'[p].payment.status = req'[p].gateway
                      /\ req'[p].payment.id = req[p].payment.id
                      /\ payments' = payments
                /\ req'[p].pc = "done"
                   => /\ req[p].payment \in payments'
                      /\ intents' = intents
                /\ (req[p].pc = "start" /\ req'[p].pc = "failed")
                   => intents' = intents /\ payments' = payments
                /\ (req[p].pc = "flushed" /\ req'[p].pc = "failed")
                   => payments' = payments
      ]_vars

\* the first invocation has run through all its steps, and the second has
\* just failed in its flush without a call to the gateway
C21_Witness ==
    /\ req[1].pc = "done"
    /\ req[2].pc = "failed"
    /\ IntentIdOfRequest(2) \notin intents
    /\ resp.to = "create"
    /\ resp.exc = "SQLAlchemyError"

\* C22: the client secret is returned only if the transaction committed:
\* every invocation that has returned successfully has its row, with the
\* intent id the gateway gave it, in the store; an invocation that failed,
\* a failing commit included, has left no row; a response to the caller is
\* a success exactly if no exception occurred, and a database exception
\* reaches the caller as a DatabaseOperationError with status 500.
C22_SecretOnlyIfCommitted ==
    /\ \A p \in Reqs :
          /\ req[p].pc = "done"
             => \E r \in payments :
                   /\ r.id = RowIdOfRequest(p)
                   /\ r.stripe_payment_intent_id = IntentIdOfRequest(p)
          /\ req[p].pc = "failed"
             => \A r \in payments : r.id # RowIdOfRequest(p)
    /\ resp.to = "create"
       => /\ resp.http = 200 <=> resp.exc = "none"
          /\ resp.http = 200 => \E p \in Reqs : req[p].pc = "done"
          /\ resp.exc = "SQLAlchemyError"
             => resp.error = "DatabaseOperationError" /\ resp.http = 500

\* the first invocation returned its client secret; the second got its
\* intent from the gateway and has just failed in its commit
C22_Witness ==
    /\ req[1].pc = "done"
    /\ req[2].pc = "failed"
    /\ IntentIdOfRequest(2) \in intents
    /\ resp.to = "create"
    /\ resp.exc = "SQLAlchemyError"
    /\ resp.error = "DatabaseOperationError"

\* C23: whenever create_payment_intent surfaces an error, the rollback
\* has been executed before the error reaches the caller: every error
\* response is one of the three error kinds and was preceded by the
\* rollback, and a failed invocation holds no row, neither in its session
\* nor in the store.
C23_RollbackPrecedesRaise ==
    /\ (resp.to = "create" /\ resp.exc # "none")
       => /\ resp.error \in {"StripePaymentError", "DatabaseOperationError",
                              "UnexpectedError"}
          /\ resp.rolledback
    /\ \A p \in Reqs :
          req[p].pc = "failed"
          => /\ req[p].payment = NoPayment
             /\ \A r \in payments : r.id # RowIdOfRequest(p)

\* the first invocation has just failed with an UnexpectedError after its
\* flush while the second still holds its flushed row
C23_Witness ==
    /\ resp.to = "create"
    /\ resp.error = "UnexpectedError"
    /\ resp.rolledback
    /\ req[1].pc = "failed"
    /\ req[2].pc = "flushed"

\* C24: every committed row has an intent id; the pending row without
\* intent id lives only in the initiator's uncommitted transaction: while
\* an invocation is between its flush and its commit the store holds no
\* row of it, and the row a delivery's select has found is a committed row
\* with the delivery's intent id, never an invocation's flushed row.
C24_NoPartialRowVisible ==
    /\ \A r \in payments : r.stripe_payment_intent_id # None
    /\ \A p \in Reqs :
          req[p].pc \in {"flushed", "confirmed"}
          => /\ \A r \in payments : r.id # RowIdOfRequest(p)
             /\ \A h \in Hooks : hook[h].found # RowIdOfRequest(p)
    /\ \A h \in Hooks :
          (hook[h].pc = "selected" /\ hook[h].found # None)
          => \E r \in payments :
                /\ r.id = hook[h].found
                /\ r.stripe_payment_intent_id = hook[h].intent

\* an invocation holds its pending row without intent id while a delivery
\* has run its select on a store that is not empty
C24_Witness ==
    /\ payments # {}
    /\ \E p \in Reqs :
          /\ req[p].pc = "flushed"
          /\ req[p].payment.status = "pending"
          /\ req[p].payment.stripe_payment_intent_id = None
    /\ \E h \in Hooks : hook[h].pc = "selected"

\* C25: every failing delivery to POST /payments/webhook, one without a
\* Stripe-Signature header included, is answered 400 and leaves the store
\* as it was.
C25_EveryFailureIs400 ==
    [][\A h \in Hooks :
          (Answers(h) /\ resp'.exc # "none")
          => resp'.http = 400 /\ payments' = payments]_vars

\* the route handler runs in this step
Routed(route) ==
    /\ request.stage = "tracking"
    /\ request'.stage = "routed"
    /\ request.route = route

\* C26: update_user and delete_user change or delete the row of user U
\* only for the caller whose id is U; an authenticated caller with another
\* id is rejected with HTTP 403 and the users table stays as it was.
C26_OwnerOnly ==
    [][/\ (Routed("update_user") \/ Routed("delete_user"))
          => /\ users' # users => request.caller = request.user_id
             /\ (/\ request.caller \in authUsers
                 /\ request.caller # request.user_id)
                => /\ users' = users
                   /\ request'.exc = "HTTPException"
                   /\ request'.status_code = 403
       /\ (/\ request.stage = "logged"
           /\ request'.stage = "sent"
           /\ request.route \in {"update_user", "delete_user"}
           /\ request.caller \in authUsers
           /\ request.caller # request.user_id)
          => request'.status_code = 403
      ]_vars

\* C27: register is all-or-nothing across the two stores: once a register
\* call has run, the user it was for is either in both the auth provider
\* and the users table or in neither.
C27_RegisterAllOrNothing ==
    (/\ request.route = "register"
     /\ request.stage \notin {"idle", "logging", "tracking"})
    => (request.user_id \in authUsers
        <=> \E r \in users : r.id = request.user_id)

\* C28: when the sign-up succeeded and the insert returned no data,
\* register fails with HTTP 500 and the detail "User created but failed to
\* save user data".
C28_InsertWithoutData ==
    (/\ request.route = "register"
     /\ request.stage \notin {"idle", "logging", "tracking"}
     /\ request.signup = "user"
     /\ request.insert = "no_data")
    => /\ request.exc = "HTTPException"
       /\ request.status_code = 500
       /\ request.detail = "User created but failed to save user data"

\* C29: every exception of a route handler that no more specific handler
\* covers is answered by generic_exception_handler with the error envelope:
\* error_code INTERNAL_SERVER_ERROR and HTTP 500.
C29_GenericEnvelope ==
    (/\ request.stage = "sent"
     /\ request.exc \notin {"none", "HTTPException"})
    => /\ request.body = "envelope"
       /\ request.error_code = "INTERNAL_SERVER_ERROR"
       /\ request.status_code = 500

\* C30: on every response the X-Request-ID header equals the request_id
\* that the handlers read from request.state, and so the request_id inside
\* an error envelope.
C30_OneRequestId ==
    request.stage = "sent"
    => /\ request.x_request_id = request.request_id
       /\ request.body = "envelope"
          => request.body_request_id = request.x_request_id

TypeOK ==
    /\ \A r \in payments : r.id \in 1..(NReq + NHook)
    /\ \A r, t \in payments : r.id = t.id => r = t
    /\ intents \subseteq {IntentIdOfRequest(p) : p \in Reqs}
====
